---- MODULE Spec2Model ----
(***************************************************************************)
(* Lux_transfer: the GTFS train-arrival engine of src/trains.py.           *)
(*                                                                         *)
(*   Spec      the in-process feed cache: TrainDataSource._get_zip and     *)
(*             _download_zip, called by several coroutines of one asyncio  *)
(*             event loop, serialised by self._lock.                       *)
(*   SpecCalendar  _active_services over feeds of calendar.txt and         *)
(*             calendar_dates.txt rows.                                    *)
(*   SpecArrivals  TrainDataSource._for_date (_active_services,            *)
(*             _read_routes, _active_trips, _extract_arrivals,             *)
(*             _build_arrival) and fetch_tomorrow's filter, over feeds of  *)
(*             trips.txt and stop_times.txt rows.                          *)
(*   SpecQuery fetch_today, get_next_tgv and ReportPipeline.now_report,    *)
(*             with an acquisition that may raise and rows that may not    *)
(*             parse.                                                      *)
(*   SpecBuild _build_arrival on the dates around the two DST transitions  *)
(*             of Europe/Luxembourg in 2024.                               *)
(***************************************************************************)
EXTENDS Integers, Sequences, FiniteSets, TLC

VARIABLES
    clock,            \* time.monotonic(), in seconds
    zip,              \* self._zip: the cached feed (NoFeed = None)
    zip_fetched_at,   \* self._zip_fetched_at
    lockHolder,       \* self._lock: the coroutine holding it (NoCaller = unlocked)
    waiters,          \* self._lock._waiters: FIFO of coroutines blocked in acquire()
    pc,               \* per caller: where its _get_zip call stands
    call,             \* per caller: what its current/last _get_zip call saw and got
    hist,             \* bookkeeping over the run: counts and outcomes of acquisitions
    feed,             \* the decoded tables of the feed under query
    query             \* the call in progress on the feed, and what it returned

vars == <<clock, zip, zip_fetched_at, lockHolder, waiters, pc, call, hist, feed, query>>

cacheVars == <<clock, zip, zip_fetched_at, lockHolder, waiters, pc, call, hist>>
gtfsVars  == <<feed, query>>

----------------------------------------------------------------------------
(* Bounds of the model *)

MaxCallers    == 3   \* coroutines that call _get_zip
MaxCalls      == 3   \* _get_zip calls in one run, over all callers
TicksPerTtl   == 2   \* clock steps that make up one _GTFS_TTL
MaxClockTicks == 3   \* clock steps in one run
MaxResources  == 2   \* resource entries in one metadata response
MaxCalendarRows  == 1   \* rows of calendar.txt (SpecCalendar)
MaxExceptionRows == 2   \* rows of calendar_dates.txt (SpecCalendar)
MaxStopRows      == 2   \* rows of stop_times.txt (SpecArrivals)
MaxBlockArrivals == 2   \* arrivals handed to _group_into_blocks (SpecBlocks)
MaxTextLen       == 4   \* characters of a message (SpecSplit)
MaxLimit         == 3   \* the limit of split_message (SpecSplit)

----------------------------------------------------------------------------
(* Constants of src/trains.py *)

GTFS_TTL == 6 * 3600

TickSeconds == GTFS_TTL \div TicksPerTtl
MaxClock    == MaxClockTicks * TickSeconds

Callers  == 1..MaxCallers
NoCaller == 0
NoFeed   == 0          \* None; a downloaded feed is named by its acquisition number
Raised   == -1         \* what a call that ended by raising gave its caller

----------------------------------------------------------------------------
(* The metadata response of the dataset API, as _download_zip reads it *)

NotADict == [kind |-> "not-a-dict"]      \* a JSON value that is no object
NetError == [kind |-> "network-error"]   \* fetch_json raised after its retries
Null     == "null"                       \* a JSON null, or a key that is absent

Formats == {"zip", "ZIP", Null}
Urls    == {"u1", "u2", ""}

Resource == [format : Formats, url : Urls]

SeqsUpTo(S, n) == UNION {[1..k -> S] : k \in 0..n}

Datasets == {NotADict} \cup
            [kind : {"dict"}, resources : SeqsUpTo(Resource, MaxResources)]

\* Faulty variant: the format is compared as it is written
LowerKeepsCase(s) == s

\* str.lower() on the format strings of the model
Lower(s) == IF s = "ZIP" THEN "zip" ELSE s

\* (x or ""): None and "" both give ""
OrEmpty(x) == IF x = Null THEN "" ELSE x

\* _download_zip lines 143-149: the url of the first resource whose format,
\* lower-cased, is "zip" and whose url is non-empty; "" (None) when there is none
RECURSIVE ZipUrlFrom(_, _)
ZipUrlFrom(resources, i) ==
    IF i > Len(resources) THEN ""
    ELSE LET fmt == Lower(OrEmpty(resources[i].format))
             url == OrEmpty(resources[i].url)
         IN  IF fmt = "zip" /\ url # "" THEN url
             ELSE ZipUrlFrom(resources, i + 1)

\* _download_zip lines 139-152: the archive url it goes on to request; "" when
\* it raises instead (fetch_json raised, the response is no dict, no zip url)
ZipUrl(dataset) ==
    IF dataset.kind # "dict" THEN ""
    ELSE ZipUrlFrom(dataset.resources, 1)

----------------------------------------------------------------------------
(* The feed cache: TrainDataSource._get_zip under self._lock *)

NoAcquisition == [n |-> 0, outcome |-> "none"]

\* One _get_zip call: `queued` it had to wait for the lock, `cold` nothing was
\* cached when it was made, `after` the latest finished acquisition when it took
\* the lock, `seen` and `age` the cache as line 130 found it, `acq` the number of
\* the acquisition it started (0: none), `zip_url` the local of _download_zip,
\* `outcome` of its own acquisition, `result` what the caller got.
NoCall == [queued |-> FALSE, cold |-> FALSE, after |-> NoAcquisition,
           seen |-> NoFeed, age |-> 0, acq |-> 0, zip_url |-> "",
           outcome |-> "none", result |-> NoFeed]

\* Faulty variant: no mutual exclusion: every caller proceeds at once
LockFreeAlways == TRUE

\* asyncio.Lock.acquire takes the lock at once only when it is unlocked and
\* nobody is queued for it; otherwise the caller joins the FIFO of waiters
LockFree == lockHolder = NoCaller /\ waiters = <<>>

\* Faulty variant: the cached feed is never reused
NeedsDownloadAlways(z, age) == TRUE

\* Faulty variant: >= for >
NeedsDownloadAtTtl(z, age) == z = NoFeed \/ age >= GTFS_TTL

\* line 131: the cache is refreshed when nothing is cached or the age exceeds the TTL
NeedsDownload(z, age) == z = NoFeed \/ age > GTFS_TTL

\* lines 133-134 after a download that returned feed f: both fields are assigned
CacheAfterDownload(f) == <<f, clock>>

\* Faulty variant: the timestamp is taken before the download is awaited
CacheAfterRaiseStamped == <<zip, clock>>

\* lines 133-134 when _download_zip raised: neither assignment is executed
CacheAfterRaise == <<zip, zip_fetched_at>>

\* Faulty variant: an except clause that falls back to the cached feed
ResultOnFailureFallback(seen) == IF seen # NoFeed THEN seen ELSE Raised

\* Faulty variant: the failure is swallowed and self._zip returned as it is
ResultOnFailureCached(seen) == seen

\* _get_zip has no except clause: what the caller gets when _download_zip raised
\* while the cache held `seen`
ResultOnFailure(seen) == Raised

PcOf(result) == IF result = Raised THEN "raised" ELSE "returned"

\* an acquisition finished: the first one's outcome and the latest one's
Finished(h, n, outcome) ==
    [h EXCEPT !.first = IF n = 1 THEN outcome ELSE @,
              !.last = [n |-> n, outcome |-> outcome]]

\* lines 130-136, run by c once it holds the lock (no suspension point before
\* the await of line 133): rec is c's call so far, h the bookkeeping so far
Locked(c, rec, h) ==
    LET age == clock - zip_fetched_at
        r   == [rec EXCEPT !.seen = zip, !.age = age, !.after = h.last]
    IN  IF NeedsDownload(zip, age)
        THEN /\ pc' = [pc EXCEPT ![c] = "meta"]
             /\ call' = [call EXCEPT ![c] = [r EXCEPT !.acq = h.acquisitions + 1]]
             /\ hist' = [h EXCEPT !.acquisitions = @ + 1,
                                  !.coldAcqs = @ + (IF rec.cold THEN 1 ELSE 0)]
             /\ lockHolder' = c
             /\ UNCHANGED <<zip, zip_fetched_at>>
        ELSE /\ pc' = [pc EXCEPT ![c] = "returned"]
             /\ call' = [call EXCEPT ![c] = [r EXCEPT !.result = zip]]
             /\ hist' = h
             /\ lockHolder' = NoCaller
             /\ UNCHANGED <<zip, zip_fetched_at>>

\* c may call _get_zip: it is not inside a call, and the run has calls left.
\* The coroutines are interchangeable: they are numbered by their first call.
MayCall(c) ==
    /\ pc[c] \in {"idle", "returned", "raised"}
    /\ hist.calls < MaxCalls
    /\ \A b \in Callers : b < c => pc[b] # "idle"

\* a coroutine calls _get_zip and takes the lock at once
CallFree(c) ==
    /\ MayCall(c)
    /\ LockFree
    /\ Locked(c, [NoCall EXCEPT !.cold = (zip = NoFeed)],
              [hist EXCEPT !.calls = @ + 1])
    /\ UNCHANGED <<clock, waiters, gtfsVars>>

\* a coroutine calls _get_zip and blocks in self._lock.acquire()
CallBlocked(c) ==
    /\ MayCall(c)
    /\ ~LockFree
    /\ pc' = [pc EXCEPT ![c] = "waiting"]
    /\ call' = [call EXCEPT ![c] = [NoCall EXCEPT !.cold = (zip = NoFeed),
                                                  !.queued = TRUE]]
    /\ waiters' = Append(waiters, c)
    /\ hist' = [hist EXCEPT !.calls = @ + 1]
    /\ UNCHANGED <<clock, zip, zip_fetched_at, lockHolder, gtfsVars>>

\* release() woke the first waiter: it takes the lock and runs lines 130-136
Wake(c) ==
    /\ lockHolder = NoCaller
    /\ waiters # <<>>
    /\ Head(waiters) = c
    /\ pc[c] = "waiting"
    /\ waiters' = Tail(waiters)
    /\ Locked(c, call[c], hist)
    /\ UNCHANGED <<clock, gtfsVars>>

\* _download_zip raised (line 133): the exception leaves the async with block,
\* which releases the lock, and reaches the caller of _get_zip
Raise(c) ==
    LET res == ResultOnFailure(call[c].seen)
    IN  /\ pc' = [pc EXCEPT ![c] = PcOf(res)]
        /\ call' = [call EXCEPT ![c] = [@ EXCEPT !.outcome = "fail", !.result = res,
                                                 !.zip_url = ""]]
        /\ zip' = CacheAfterRaise[1]
        /\ zip_fetched_at' = CacheAfterRaise[2]
        /\ hist' = Finished(hist, call[c].acq, "fail")
        /\ lockHolder' = NoCaller

\* the reply to fetch_json(_GTFS_DATASET_URL), lines 139-152
MetaReply(c, dataset) ==
    /\ pc[c] = "meta"
    /\ IF ZipUrl(dataset) = ""
       THEN Raise(c)
       ELSE /\ pc' = [pc EXCEPT ![c] = "archive"]
            /\ call' = [call EXCEPT ![c].zip_url = ZipUrl(dataset)]
            /\ UNCHANGED <<zip, zip_fetched_at, hist, lockHolder>>
    /\ UNCHANGED <<clock, waiters, gtfsVars>>

\* fetch_bytes(zip_url) returned an archive that ZipFile opens (lines 154-155,
\* then 133-136): the cache is replaced and the new feed returned
ArchiveOk(c) ==
    /\ pc[c] = "archive"
    /\ pc' = [pc EXCEPT ![c] = "returned"]
    /\ call' = [call EXCEPT ![c] = [@ EXCEPT !.outcome = "ok", !.result = call[c].acq,
                                                 !.zip_url = ""]]
    /\ zip' = CacheAfterDownload(call[c].acq)[1]
    /\ zip_fetched_at' = CacheAfterDownload(call[c].acq)[2]
    /\ hist' = Finished(hist, call[c].acq, "ok")
    /\ lockHolder' = NoCaller
    /\ UNCHANGED <<clock, waiters, gtfsVars>>

\* fetch_bytes raised, or the bytes are no zip archive (lines 154-155)
ArchiveFails(c) ==
    /\ pc[c] = "archive"
    /\ Raise(c)
    /\ UNCHANGED <<clock, waiters, gtfsVars>>

\* time passes. The clock is coarse (a step is a fraction of the TTL), and the
\* hand-over of the lock to a woken waiter has no suspension point on I/O: no
\* clock step falls between release() and the waiter's line 130.
Tick ==
    /\ clock < MaxClock
    /\ hist.calls < MaxCalls \/ \E c \in Callers : pc[c] \in {"meta", "archive"}
    /\ ~(lockHolder = NoCaller /\ waiters # <<>>)
    /\ clock' = clock + TickSeconds
    /\ UNCHANGED <<zip, zip_fetched_at, lockHolder, waiters, pc, call, hist, gtfsVars>>

NoFeedTables == [names |-> {},
                 calendar |-> <<>>, calendar_dates |-> <<>>, routes |-> <<>>,
                 trips |-> <<>>, stop_times |-> <<>>]
NoQuery == [stage |-> "none"]

\* TrainDataSource.__init__
CacheInit ==
    /\ clock = 0
    /\ zip = NoFeed
    /\ zip_fetched_at = 0
    /\ lockHolder = NoCaller
    /\ waiters = <<>>
    /\ pc = [c \in Callers |-> "idle"]
    /\ call = [c \in Callers |-> NoCall]
    /\ hist = [calls |-> 0, acquisitions |-> 0, coldAcqs |-> 0,
               first |-> "none", last |-> NoAcquisition]

Init ==
    /\ CacheInit
    /\ feed = NoFeedTables
    /\ query = NoQuery

Next ==
    \/ \E c \in Callers : CallFree(c)
    \/ \E c \in Callers : CallBlocked(c)
    \/ \E c \in Callers : Wake(c)
    \/ \E c \in Callers : \E d \in Datasets \cup {NetError} : MetaReply(c, d)
    \/ \E c \in Callers : ArchiveOk(c)
    \/ \E c \in Callers : ArchiveFails(c)
    \/ Tick

Spec == Init /\ [][Next]_vars

----------------------------------------------------------------------------
(* One refresh, reply by reply: _get_zip calling _download_zip (SpecDownload).
   query is the refresh in progress: `dataset` the metadata reply, `zip_url`
   the local of _download_zip, `requested` the urls handed to fetch_bytes,
   `cache0` the cache fields when the refresh began. *)

OldFeed == 1
NewFeed == 2

\* the cache is empty, or holds a feed older than the TTL
DownloadInit ==
    /\ CacheInit
    /\ feed = NoFeedTables
    /\ query = [stage |-> "called"]

\* an earlier refresh has filled the cache and the TTL has passed since
CacheGoesStale ==
    /\ query.stage = "called"
    /\ zip = NoFeed
    /\ zip' = OldFeed
    /\ clock' = MaxClock
    /\ UNCHANGED <<zip_fetched_at, lockHolder, waiters, pc, call, hist, gtfsVars>>

\* lines 129-133 and 139-152: the refresh is due, the metadata reply is read;
\* without a zip url the ValueError leaves _download_zip and _get_zip
DownloadMeta(dataset) ==
    /\ query.stage = "called"
    /\ NeedsDownload(zip, clock - zip_fetched_at)
    /\ query' = [stage |-> IF ZipUrl(dataset) = "" THEN "raised" ELSE "archive",
                 dataset |-> dataset, zip_url |-> ZipUrl(dataset),
                 requested |-> <<>>, cache0 |-> <<zip, zip_fetched_at>>]
    /\ zip' = CacheAfterRaise[1]
    /\ zip_fetched_at' = CacheAfterRaise[2]
    /\ UNCHANGED <<clock, lockHolder, waiters, pc, call, hist, feed>>

\* lines 154-155, then 133-136: fetch_bytes(zip_url); the archive opens, or
\* fetch_bytes or ZipFile raises
DownloadArchive(ok) ==
    /\ query.stage = "archive"
    /\ query' = [query EXCEPT !.stage = IF ok THEN "returned" ELSE "raised",
                              !.requested = Append(@, query.zip_url)]
    /\ zip' = IF ok THEN CacheAfterDownload(NewFeed)[1] ELSE CacheAfterRaise[1]
    /\ zip_fetched_at' = IF ok THEN CacheAfterDownload(NewFeed)[2] ELSE CacheAfterRaise[2]
    /\ UNCHANGED <<clock, lockHolder, waiters, pc, call, hist, feed>>

DownloadNext ==
    \/ CacheGoesStale
    \/ \E d \in Datasets \cup {NetError} : DownloadMeta(d)
    \/ \E ok \in BOOLEAN : DownloadArchive(ok)

SpecDownload == DownloadInit /\ [][DownloadNext]_vars

----------------------------------------------------------------------------
(* Text of the feed. A field that the code compares, splits or parses is a   *)
(* sequence of characters; an identifier it only tests for equality is a    *)
(* string.                                                                  *)

Digits == <<"0", "1", "2", "3", "4", "5", "6", "7", "8", "9">>

IsDigit(ch) == \E i \in 1..Len(Digits) : Digits[i] = ch
DigitVal(ch) == (CHOOSE i \in 1..Len(Digits) : Digits[i] = ch) - 1

\* ord(): the code points of the characters of the model, in their order
Ord(ch) == IF IsDigit(ch) THEN 48 + DigitVal(ch)
           ELSE IF ch = ":" THEN 58
           ELSE IF ch = "-" THEN 45
           ELSE 120

\* a <= b on str: lexicographic by code point
RECURSIVE StrLeq(_, _)
StrLeq(a, b) ==
    IF a = <<>> THEN TRUE
    ELSE IF b = <<>> THEN FALSE
    ELSE IF Ord(Head(a)) < Ord(Head(b)) THEN TRUE
    ELSE IF Ord(Head(a)) > Ord(Head(b)) THEN FALSE
    ELSE StrLeq(Tail(a), Tail(b))

\* int(text) for text of decimal digits; ok is FALSE where int raises ValueError
RECURSIVE DigitsValue(_, _)
DigitsValue(text, acc) ==
    IF text = <<>> THEN acc
    ELSE DigitsValue(Tail(text), 10 * acc + DigitVal(Head(text)))

ParseInt(text) ==
    IF text # <<>> /\ \A i \in 1..Len(text) : IsDigit(text[i])
    THEN [ok |-> TRUE, val |-> DigitsValue(text, 0)]
    ELSE IF Len(text) > 1 /\ Head(text) = "-"
            /\ \A i \in 2..Len(text) : IsDigit(text[i])
    THEN [ok |-> TRUE, val |-> 0 - DigitsValue(Tail(text), 0)]
    ELSE [ok |-> FALSE, val |-> 0]

\* text.split(":")
RECURSIVE SplitColon(_, _, _)
SplitColon(text, part, parts) ==
    IF text = <<>> THEN Append(parts, part)
    ELSE IF Head(text) = ":" THEN SplitColon(Tail(text), <<>>, Append(parts, part))
    ELSE SplitColon(Tail(text), Append(part, Head(text)), parts)

Split(text) == SplitColon(text, <<>>, <<>>)

----------------------------------------------------------------------------
(* Dates: target.strftime("%Y%m%d"), target.strftime("%A").lower() and      *)
(* datetime.strptime(date_str, "%Y%m%d") on the days of the model           *)

D10 == <<"2", "0", "2", "4", "0", "3", "1", "0">>
D11 == <<"2", "0", "2", "4", "0", "3", "1", "1">>

\* 2024-03-10 is a Sunday; day counts the days from 2024-03-01
Days == { [ymd |-> D10, weekday |-> "sunday", day |-> 9],
          [ymd |-> D11, weekday |-> "monday", day |-> 10] }

DateTexts == {d.ymd : d \in Days}

DMar30 == <<"2", "0", "2", "4", "0", "3", "3", "0">>
DMar31 == <<"2", "0", "2", "4", "0", "3", "3", "1">>
DOct26 == <<"2", "0", "2", "4", "1", "0", "2", "6">>
DOct27 == <<"2", "0", "2", "4", "1", "0", "2", "7">>

\* the dates _build_arrival is given, with their day count from 2024-03-01
DateTable == { [ymd |-> D10, day |-> 9],      [ymd |-> D11, day |-> 10],
               [ymd |-> DMar30, day |-> 29],  [ymd |-> DMar31, day |-> 30],
               [ymd |-> DOct26, day |-> 239], [ymd |-> DOct27, day |-> 240] }

----------------------------------------------------------------------------
(* _LUX_TZ = pytz.timezone("Europe/Luxembourg") in 2024: UTC+1, and UTC+2     *)
(* from 2024-03-31 01:00 UTC to 2024-10-27 01:00 UTC. Instants are minutes   *)
(* from 2024-03-01 00:00 UTC+1.                                              *)

DstStartDay == 30     \* 2024-03-31: 02:00 UTC+1 becomes 03:00 UTC+2
DstEndDay   == 240    \* 2024-10-27: 03:00 UTC+2 becomes 02:00 UTC+1

DstStart == (DstStartDay * 24 + 2) * 60
DstEnd   == (DstEndDay * 24 + 2) * 60

\* the UTC offset of the zone, in hours, at an instant
ZoneOffsetAt(instant) == IF DstStart <= instant /\ instant < DstEnd THEN 2 ELSE 1

\* the instant at which a clock running at UTC+offset shows day, hour:minute
InstantOf(day, hour, minute, offset) ==
    (day * 24 + hour) * 60 + minute - (offset - 1) * 60

\* the offsets under which the zone's clock does show day, hour:minute: none
\* in the hour skipped in spring, both in the hour repeated in autumn
LocalOffsets(day, hour, minute) ==
    {o \in {1, 2} : ZoneOffsetAt(InstantOf(day, hour, minute, o)) = o}

\* _LUX_TZ.localize(naive, is_dst=False): the offset of the result. A repeated
\* time is read as standard time, a skipped time keeps its fields under the
\* standard offset, and nothing is raised.
Localize(day, hour, minute) ==
    IF LocalOffsets(day, hour, minute) = {2} THEN 2 ELSE 1

----------------------------------------------------------------------------
(* Constants of src/trains.py and the identifiers of the model's feeds *)

STOP_ID == "000200405060"
TRAIN_TYPES == {"ICE", "TGV", "IC", "EC", "RE", "RB", "TER", "IR", "CRE", "CRN"}

ServiceIds == {"S1", "S2"}
TripIds    == {"T1", "T2"}
StopIds    == {STOP_ID, "X"}

\* routes.txt of every feed of the model
RoutesTable == << [route_id |-> "R1", route_short_name |-> "TGV"],
                  [route_id |-> "R2", route_short_name |-> " re "],
                  [route_id |-> "R3", route_short_name |-> "Bus"] >>

\* stops.txt of every feed of the model
StopsTable == << [stop_id |-> STOP_ID, stop_name |-> "Luxembourg, Gare Centrale"],
                 [stop_id |-> "X", stop_name |-> "Bettembourg, Gare"] >>

\* str.strip() and str.upper() on the route names of the model
Strip(name) == IF name = " re " THEN "re" ELSE name

Upper(name) ==
    IF name = " re " THEN " RE "
    ELSE IF name = "re" THEN "RE"
    ELSE IF name = "Bus" THEN "BUS"
    ELSE name

StripUpper(name) == Upper(Strip(name))

----------------------------------------------------------------------------
(* _active_services *)

\* Faulty variant: exception_type 2 is ignored
ApplyExceptionNoRemove(services, sid, exc_type) ==
    IF exc_type = "1" THEN services \cup {sid} ELSE services

\* Faulty variant: exception_type 1 is ignored
ApplyExceptionNoAdd(services, sid, exc_type) ==
    IF exc_type = "2" THEN services \ {sid} ELSE services

\* lines 211-214: one calendar_dates.txt row dated target_str
ApplyException(services, sid, exc_type) ==
    IF exc_type = "1" THEN services \cup {sid}
    ELSE IF exc_type = "2" THEN services \ {sid}
    ELSE services

\* Faulty variant: the end date is excluded from the range
RowCoversBeforeEnd(row, target_str, weekday) ==
    /\ StrLeq(row.start_date, target_str)
    /\ StrLeq(target_str, row.end_date) /\ target_str # row.end_date
    /\ row[weekday] = "1"

\* line 201: start <= target_str <= end, as str, and the weekday's flag is "1"
RowCovers(row, target_str, weekday) ==
    /\ StrLeq(row.start_date, target_str)
    /\ StrLeq(target_str, row.end_date)
    /\ row[weekday] = "1"

\* lines 196-202: the services whose weekly row covers target_str
RECURSIVE CalendarPass(_, _, _, _)
CalendarPass(rows, target_str, weekday, services) ==
    IF rows = <<>> THEN services
    ELSE LET row == Head(rows)
         IN  CalendarPass(Tail(rows), target_str, weekday,
                          IF RowCovers(row, target_str, weekday)
                          THEN services \cup {row.service_id} ELSE services)

\* lines 204-214: the exception rows, in file order
RECURSIVE ExceptionPass(_, _, _)
ExceptionPass(rows, target_str, services) ==
    IF rows = <<>> THEN services
    ELSE LET row == Head(rows)
         IN  ExceptionPass(Tail(rows), target_str,
                 IF row.date # target_str THEN services
                 ELSE ApplyException(services, row.service_id, row.exception_type))

\* the two members of the archive that _active_services opens only if
\* zf.namelist() has them (lines 194, 196, 204); f.names is the set of those
\* the archive has
CalendarFiles == {"calendar.txt", "calendar_dates.txt"}

\* Faulty variant: the exception rows are applied before the weekly rows
ActiveServicesExceptionsFirst(f, target_str, weekday) ==
    LET added == IF "calendar_dates.txt" \in f.names
                 THEN ExceptionPass(f.calendar_dates, target_str, {}) ELSE {}
    IN  IF "calendar.txt" \in f.names
        THEN CalendarPass(f.calendar, target_str, weekday, added) ELSE added

\* _active_services(zf, target_str, weekday)
ActiveServices(f, target_str, weekday) ==
    LET weekly == IF "calendar.txt" \in f.names
                  THEN CalendarPass(f.calendar, target_str, weekday, {}) ELSE {}
    IN  IF "calendar_dates.txt" \in f.names
        THEN ExceptionPass(f.calendar_dates, target_str, weekly) ELSE weekly

----------------------------------------------------------------------------
(* _read_routes, _active_trips *)

\* route_map.get(route_id, ""): the last routes.txt row of that id wins
RECURSIVE RouteName(_, _, _)
RouteName(routes, route_id, name) ==
    IF routes = <<>> THEN name
    ELSE RouteName(Tail(routes), route_id,
                   IF Head(routes).route_id = route_id
                   THEN Head(routes).route_short_name ELSE name)

\* Faulty variant: the service of the trip is not looked at
KeepTripAnyService(row, services, route_name) == route_name \in TRAIN_TYPES

\* lines 237-241: the two `continue` tests of _active_trips
KeepTrip(row, services, route_name) ==
    row.service_id \in services /\ route_name \in TRAIN_TYPES

\* _active_trips: trip_id -> trip row, for the rows of an active service whose
\* route name, stripped and upper-cased, is a train type
RECURSIVE ActiveTrips(_, _, _, _)
ActiveTrips(rows, services, routes, trips) ==
    IF rows = <<>> THEN trips
    ELSE LET row        == Head(rows)
             route_name == StripUpper(RouteName(routes, row.route_id, ""))
             keep       == KeepTrip(row, services, route_name)
             entry      == [trip_id |-> row.trip_id, service_id |-> row.service_id,
                            route_id |-> row.route_id, route_name |-> route_name]
         IN  ActiveTrips(Tail(rows), services, routes,
                         IF keep THEN (row.trip_id :> entry) @@ trips ELSE trips)

NoTrips == [t \in {} |-> 0]

----------------------------------------------------------------------------
(* _build_arrival *)

None == [none |-> TRUE]

\* _clean_stop_name on the stop names of the model
CleanStopName(name) ==
    IF name = "Luxembourg, Gare Centrale" THEN "Luxembourg"
    ELSE IF name = "Bettembourg, Gare" THEN "Bettembourg"
    ELSE name

\* stop_names.get(stop_id, "")
RECURSIVE StopName(_, _, _)
StopName(stops, stop_id, name) ==
    IF stops = <<>> THEN name
    ELSE StopName(Tail(stops), stop_id,
                  IF Head(stops).stop_id = stop_id THEN Head(stops).stop_name ELSE name)

\* datetime.strptime(date_str, "%Y%m%d") for the date strings strftime produced
DayOf(date_str) == (CHOOSE d \in DateTable : d.ymd = date_str).day

\* _build_arrival(time_str, date_str, trip, origin_stop_name): the Arrival, with
\* scheduled_time as its fields day, hour, minute and its utcoffset; None where
\* the code returns None. The zone is attached to the time on the service date
\* (lines 334-337) and the day is added afterwards (line 339): datetime
\* arithmetic moves the fields and keeps the offset.
\* tid names the trip the Arrival was built for (not a field of Arrival).
BuildArrival(time_str, date_str, trip, origin_stop_name) ==
    LET parts == Split(time_str)
    IN  IF Len(parts) < 2 THEN None
        ELSE LET h == ParseInt(parts[1])
                 m == ParseInt(parts[2])
             IN  IF ~h.ok \/ ~m.ok THEN None
                 ELSE LET day_offset == IF h.val >= 24 THEN 1 ELSE 0
                          hour       == IF h.val >= 24 THEN h.val - 24 ELSE h.val
                      IN  \* base.replace(hour=, minute=) raises ValueError
                          IF hour \notin 0..23 \/ m.val \notin 0..59 THEN None
                          ELSE [none |-> FALSE,
                                tid |-> trip.trip_id,
                                identifier |-> trip.route_name,
                                day |-> DayOf(date_str) + day_offset,
                                hour |-> hour,
                                minute |-> m.val,
                                utcoffset |-> Localize(DayOf(date_str), hour, m.val),
                                origin |-> IF origin_stop_name = "" THEN "-"
                                           ELSE CleanStopName(origin_stop_name)]

\* Arrival.effective_time (delay_minutes is 0): aware datetimes compare as
\* instants
EffectiveTime(a) == InstantOf(a.day, a.hour, a.minute, a.utcoffset)

----------------------------------------------------------------------------
(* _extract_arrivals *)

\* Faulty variant: every trip with a row at the stop is kept
IsTerminusAlways(gc_seq, max_seq) == TRUE

\* line 284: the row at Gare Centrale is the trip's last stop
IsTerminus(gc_seq, max_seq) == gc_seq = max_seq

NoScan == [raised |-> FALSE, gc_rows |-> NoTrips, gc_order |-> <<>>,
           trip_max_seq |-> NoTrips, trip_first |-> NoTrips]

\* lines 266-277: the scan of stop_times.txt. raised: int(stop_sequence) raised
\* ValueError. gc_order is the insertion order of the keys of gc_rows.
RECURSIVE ScanStopTimes(_, _, _)
ScanStopTimes(rows, trips, acc) ==
    IF rows = <<>> \/ acc.raised THEN acc
    ELSE LET row == Head(rows)
             tid == row.trip_id
             seq == ParseInt(row.stop_sequence)
         IN  IF tid \notin DOMAIN trips THEN ScanStopTimes(Tail(rows), trips, acc)
             ELSE IF ~seq.ok THEN [acc EXCEPT !.raised = TRUE]
             ELSE ScanStopTimes(Tail(rows), trips,
                    [raised |-> FALSE,
                     trip_max_seq |->
                        IF tid \notin DOMAIN acc.trip_max_seq \/ seq.val > acc.trip_max_seq[tid]
                        THEN (tid :> seq.val) @@ acc.trip_max_seq ELSE acc.trip_max_seq,
                     trip_first |->
                        IF tid \notin DOMAIN acc.trip_first \/ seq.val < acc.trip_first[tid][1]
                        THEN (tid :> <<seq.val, row.stop_id>>) @@ acc.trip_first
                        ELSE acc.trip_first,
                     gc_rows |->
                        IF row.stop_id = STOP_ID THEN (tid :> row) @@ acc.gc_rows
                        ELSE acc.gc_rows,
                     gc_order |->
                        IF row.stop_id = STOP_ID /\ tid \notin DOMAIN acc.gc_rows
                        THEN Append(acc.gc_order, tid) ELSE acc.gc_order])

\* lines 281-293: one Arrival per trip of gc_rows whose row is its terminus
RECURSIVE DecideArrivals(_, _, _, _, _)
DecideArrivals(order, scan, trips, date_str, arrivals) ==
    IF order = <<>> THEN arrivals
    ELSE LET tid    == Head(order)
             row    == scan.gc_rows[tid]
             gc_seq == ParseInt(row.stop_sequence).val
             origin == StopName(StopsTable, scan.trip_first[tid][2], "")
             a      == BuildArrival(row.arrival_time, date_str, trips[tid], origin)
             keep   == /\ IsTerminus(gc_seq, scan.trip_max_seq[tid])
                       /\ row.arrival_time # <<>>
                       /\ ~a.none
         IN  DecideArrivals(Tail(order), scan, trips, date_str,
                            IF keep THEN Append(arrivals, a) ELSE arrivals)

\* Faulty variant: the list is returned in the order it was built
StaysBehindAlways(last, a) == TRUE

\* Faulty variant: an arrival passes the earlier ones of its own timestamp
StaysBehindIfLater(last, a) == EffectiveTime(last) < EffectiveTime(a)

\* line 295, key=lambda a: a.effective_time: an arrival stays behind the ones
\* before it in the list whose key is not greater (the sort is stable)
StaysBehind(last, a) == EffectiveTime(last) <= EffectiveTime(a)

\* sorted(arrivals, key=effective_time): stable, ascending
RECURSIVE InsertSorted(_, _)
InsertSorted(sorted, a) ==
    IF sorted = <<>> THEN <<a>>
    ELSE IF StaysBehind(sorted[Len(sorted)], a) THEN Append(sorted, a)
    ELSE Append(InsertSorted(SubSeq(sorted, 1, Len(sorted) - 1), a), sorted[Len(sorted)])

RECURSIVE Sorted(_, _)
Sorted(arrivals, acc) ==
    IF arrivals = <<>> THEN acc
    ELSE Sorted(Tail(arrivals), InsertSorted(acc, Head(arrivals)))

\* _extract_arrivals(zf, trips, date_str): the sorted list, or raised
ExtractArrivals(f, trips, date_str) ==
    LET scan == ScanStopTimes(f.stop_times, trips, NoScan)
    IN  IF scan.raised THEN [raised |-> TRUE, arrivals |-> <<>>]
        ELSE [raised |-> FALSE,
              arrivals |-> Sorted(DecideArrivals(scan.gc_order, scan, trips,
                                                 date_str, <<>>), <<>>)]

----------------------------------------------------------------------------
(* TrainDataSource._for_date and fetch_tomorrow *)

\* Faulty variant: no early return when no service is active
ReturnsBeforeTripsNever(services) == FALSE

\* lines 165-167: `if not services: return []`
ReturnsBeforeTrips(services) == services = {}

\* _for_date(target) on feed f: what each stage computed, the members of the
\* archive it opened, and what it returned
ForDate(f, target) ==
    LET services == ActiveServices(f, target.ymd, target.weekday)
        early    == ReturnsBeforeTrips(services)
        trips    == IF early THEN NoTrips
                    ELSE ActiveTrips(f.trips, services, f.routes, NoTrips)
        out      == IF DOMAIN trips = {} THEN [raised |-> FALSE, arrivals |-> <<>>]
                    ELSE ExtractArrivals(f, trips, target.ymd)
        opened   == (CalendarFiles \cap f.names)
                    \cup (IF early THEN {} ELSE {"routes.txt", "trips.txt"})
                    \cup (IF DOMAIN trips = {} THEN {}
                          ELSE {"stop_times.txt", "stops.txt"})
    IN  [services |-> services, trips |-> trips, opened |-> opened,
         raised |-> out.raised, arrivals |-> out.arrivals]

\* _for_date when `await self._get_zip()` (line 160) returned the feed (got)
\* or raised
ForDateOrRaise(f, target, got) ==
    IF got THEN ForDate(f, target)
    ELSE [services |-> {}, trips |-> NoTrips, opened |-> {},
          raised |-> TRUE, arrivals |-> <<>>]

\* Faulty variant: an arrival at the very instant is left out
KeptFromStrictlyAfter(a, start) == EffectiveTime(a) > start

\* lines 90 and 104: `a.effective_time >= now`, `a.effective_time >= start`
KeptFrom(a, start) == EffectiveTime(a) >= start

\* Faulty variant: no except clause around _for_date
CaughtNever(raised) == FALSE

\* lines 85-89 and 99-103: `except Exception` catches whatever _for_date raised
Caught(raised) == raised

\* [a for a in all_arrivals if a.effective_time >= start]
RECURSIVE FromInstant(_, _)
FromInstant(arrivals, start) ==
    IF arrivals = <<>> THEN <<>>
    ELSE IF KeptFrom(Head(arrivals), start)
         THEN <<Head(arrivals)>> \o FromInstant(Tail(arrivals), start)
         ELSE FromInstant(Tail(arrivals), start)

\* fetch_tomorrow, for a `now` whose tomorrow is query.target: _for_date of
\* tomorrow, [] when it raised, filtered from tomorrow's midnight. got: _get_zip
\* returned the feed; propagated: the exception left fetch_tomorrow.
FetchTomorrow ==
    /\ query.stage = "called"
    /\ \E got \in BOOLEAN :
        \E r \in {ForDateOrRaise(feed, query.target, got)} :
          LET start == query.target.day * 24 * 60
          IN  query' = [stage |-> "done", op |-> "fetch_tomorrow",
                        target |-> query.target, got |-> got,
                        services |-> r.services, trips |-> r.trips,
                        raised |-> r.raised,
                        propagated |-> r.raised /\ ~Caught(r.raised),
                        extracted |-> r.arrivals,
                        result |-> IF r.raised THEN <<>>
                                   ELSE FromInstant(r.arrivals, start)]
    /\ UNCHANGED <<feed, cacheVars>>

----------------------------------------------------------------------------
(* The feeds and queries of SpecCalendar and SpecArrivals *)

T0800 == <<"0", "8", ":", "0", "0">>
T2515 == <<"2", "5", ":", "1", "5">>
T0730 == <<"0", "7", ":", "3", "0">>

\* calendar.txt rows: a service, a date range and the flags of the two weekdays
CalendarRows ==
    { [service_id |-> sid, start_date |-> r[1], end_date |-> r[2],
       sunday |-> w[1], monday |-> w[2]] :
      sid \in ServiceIds,
      r \in {<<D10, D10>>, <<D10, D11>>, <<D11, D11>>},
      w \in {<<"1", "1">>, <<"0", "1">>, <<"0", "0">>} }

\* calendar_dates.txt rows
ExceptionRows == [service_id : ServiceIds, date : DateTexts, exception_type : {"1", "2"}]

\* stop_times.txt rows: stop_sequence "2" < "10" as integers, not as strings;
\* the arrival time of a row away from Gare Centrale is never read
StopTimeRows ==
    [trip_id : TripIds, stop_id : {STOP_ID}, stop_sequence : {<<"2">>, <<"1", "0">>},
     arrival_time : {T0800, T2515}]
    \cup
    [trip_id : TripIds, stop_id : {"X"}, stop_sequence : {<<"2">>, <<"1", "0">>},
     arrival_time : {T0730}]

\* trips.txt: each trip id has no row or one row
TripChoices == {<<>>} \cup
    { <<[service_id |-> x[1], route_id |-> x[2]]>> :
      x \in {<<"S1", "R1">>, <<"S2", "R2">>, <<"S1", "R3">>, <<"S2", "R9">>} }

TripRowsOf(tid, choice) ==
    IF choice = <<>> THEN <<>>
    ELSE <<[trip_id |-> tid, service_id |-> choice[1].service_id,
            route_id |-> choice[1].route_id]>>

TripTables == { TripRowsOf("T1", a) \o TripRowsOf("T2", b) : a, b \in TripChoices }

\* the fixed part of the feeds of SpecArrivals: S1 runs on both days by its
\* weekly row, S2 on 2024-03-11 only, by an added exception
SampleCalendar ==
    << [service_id |-> "S1", start_date |-> D10, end_date |-> D11,
        sunday |-> "1", monday |-> "1"] >>

SampleExceptions == << [service_id |-> "S2", date |-> D11, exception_type |-> "1"] >>

Called == [stage : {"called"}, target : Days]

\* the calendar tables vary; _active_services reads no other table
CalendarInit ==
    /\ CacheInit
    /\ feed \in [names : {CalendarFiles},
                 calendar : SeqsUpTo(CalendarRows, MaxCalendarRows),
                 calendar_dates : SeqsUpTo(ExceptionRows, MaxExceptionRows),
                 routes : {RoutesTable},
                 trips : {<<>>},
                 stop_times : {<<>>}]
    /\ query \in Called

\* a call of _active_services(zf, target_str, weekday), as _for_date makes it
\* (lines 160-164)
ActiveServicesCall ==
    /\ query.stage = "called"
    /\ query' = [stage |-> "services", target |-> query.target,
                 services |-> ActiveServices(feed, query.target.ymd,
                                             query.target.weekday)]
    /\ UNCHANGED <<feed, cacheVars>>

CalendarNext == ActiveServicesCall

\* the trips and the stop times vary
ArrivalsInit ==
    /\ CacheInit
    /\ feed \in [names : {CalendarFiles},
                 calendar : {SampleCalendar},
                 calendar_dates : {SampleExceptions},
                 routes : {RoutesTable},
                 trips : TripTables,
                 stop_times : SeqsUpTo(StopTimeRows, MaxStopRows)]
    /\ query \in Called

GtfsNext == FetchTomorrow

SpecCalendar == CalendarInit /\ [][CalendarNext]_vars

SpecArrivals == ArrivalsInit /\ [][GtfsNext]_vars

----------------------------------------------------------------------------
(* fetch_today, get_next_tgv and ReportPipeline.now_report (SpecQuery) *)

\* the day after `target`, as `target + timedelta(days=1)` gives it
HasNextDay(target) == \E d \in Days : d.day = target.day + 1
NextDay(target)    == CHOOSE d \in Days : d.day = target.day + 1

\* fetch_today (lines 82-92) at the instant `now` of day `today`: the list it
\* returns; failed tells whether the except clause produced it
FetchTodayResult(f, today, now, got) ==
    LET r == ForDateOrRaise(f, today, got)
    IN  [for_date |-> r,
         failed   |-> r.raised,
         propagated |-> r.raised /\ ~Caught(r.raised),
         list     |-> IF r.raised THEN <<>> ELSE FromInstant(r.arrivals, now)]

\* [a for a in arrivals if a.identifier == "TGV" and a.effective_time > now]
RECURSIVE TgvsAfter(_, _)
TgvsAfter(arrivals, now) ==
    IF arrivals = <<>> THEN <<>>
    ELSE IF Head(arrivals).identifier = "TGV" /\ EffectiveTime(Head(arrivals)) > now
         THEN <<Head(arrivals)>> \o TgvsAfter(Tail(arrivals), now)
         ELSE TgvsAfter(Tail(arrivals), now)

\* min(tgvs, key=effective_time): the first of the earliest
MinByTime(list) ==
    list[CHOOSE i \in 1..Len(list) :
            /\ \A j \in 1..Len(list) : EffectiveTime(list[i]) <= EffectiveTime(list[j])
            /\ \A j \in 1..(i - 1) : EffectiveTime(list[j]) > EffectiveTime(list[i])]

\* get_next_tgv (lines 108-123): the days `today` and its next day in turn; a
\* day whose _for_date raises is passed over; the first day that has a TGV
\* after `now` decides
TgvsOfDay(f, target, now, got) ==
    LET r == ForDateOrRaise(f, target, got)
    IN  IF r.raised THEN <<>> ELSE TgvsAfter(r.arrivals, now)

FirstDayWithTgv(tgvs0, tgvs1) ==
    IF tgvs0 # <<>> THEN MinByTime(tgvs0)
    ELSE IF tgvs1 # <<>> THEN MinByTime(tgvs1)
    ELSE None

NextTgv(f, today, now, got0, got1) ==
    CHOOSE tgv \in { FirstDayWithTgv(tgvs0, tgvs1) :
                       tgvs0 \in {TgvsOfDay(f, today, now, got0)},
                       tgvs1 \in {TgvsOfDay(f, NextDay(today), now, got1)} } : TRUE

\* src/pipeline.py _unpack: a gather result that is a list is data, and ok
Unpack(result) ==
    IF result.is_list THEN [data |-> result.list, ok |-> TRUE]
    ELSE [data |-> <<>>, ok |-> FALSE]

\* src/analyzer.py build_now_report: the status fields of the Report
SourceStatusOf(ok) == IF ok THEN "ok" ELSE "unavailable"

\* datetime.now(tz=_LUX_TZ) when the zone's clock shows HH:MM of a day
Instant(day, hh, mm) ==
    InstantOf(day.day, hh, mm, ZoneOffsetAt(InstantOf(day.day, hh, mm, 1)))

\* fetch_today()
FetchToday ==
    /\ query.stage = "called"
    /\ \E got \in BOOLEAN :
        \E r \in {FetchTodayResult(feed, query.target, query.now, got)} :
              query' = [stage |-> "done", op |-> "fetch_today",
                        target |-> query.target, now |-> query.now, got |-> got,
                        services |-> r.for_date.services, trips |-> r.for_date.trips,
                        opened |-> r.for_date.opened, raised |-> r.for_date.raised,
                        propagated |-> r.propagated,
                        extracted |-> r.for_date.arrivals, result |-> r.list]
    /\ UNCHANGED <<feed, cacheVars>>

\* get_next_tgv()
GetNextTgv ==
    /\ query.stage = "called"
    /\ HasNextDay(query.target)
    /\ \E got0, got1 \in BOOLEAN :
          query' = [stage |-> "done", op |-> "get_next_tgv",
                    target |-> query.target, now |-> query.now,
                    got0 |-> got0, got1 |-> got1,
                    result |-> NextTgv(feed, query.target, query.now, got0, got1)]
    /\ UNCHANGED <<feed, cacheVars>>

\* ReportPipeline.now_report (src/pipeline.py 37-50): the gathered results of
\* flights.fetch_today, trains.fetch_today and trains.get_next_tgv, unpacked and
\* handed to build_now_report. The flights source returns a list or raises.
NowReport ==
    /\ query.stage = "called"
    /\ HasNextDay(query.target)
    /\ \E got, got0, got1, flights_is_list \in BOOLEAN :
        \E today \in {FetchTodayResult(feed, query.target, query.now, got)},
           tgv_res \in {NextTgv(feed, query.target, query.now, got0, got1)} :
          LET trains_res == [is_list |-> TRUE, list |-> today.list]
              flights    == Unpack([is_list |-> flights_is_list, list |-> <<>>])
              trains     == Unpack(trains_res)
          IN  query' = [stage |-> "done", op |-> "now_report",
                        target |-> query.target, now |-> query.now,
                        trains_failed |-> today.failed,
                        trains |-> trains.data,
                        tgv |-> tgv_res,
                        flights_status |-> SourceStatusOf(flights.ok),
                        trains_status |-> SourceStatusOf(trains.ok)]
    /\ UNCHANGED <<feed, cacheVars>>

T0030 == <<"0", "0", ":", "3", "0">>
TBad  == <<"8", "h", "1", "5">>

\* stop_times.txt rows at Gare Centrale: after midnight of the service day,
\* early in the day, with a time or a stop_sequence that does not parse
QueryStopRows ==
    { [trip_id |-> tid, stop_id |-> STOP_ID, stop_sequence |-> x[1],
       arrival_time |-> x[2]] :
      tid \in TripIds,
      x \in {<<<<"2">>, T0030>>, <<<<"2">>, T2515>>, <<<<"2">>, TBad>>,
             <<<<"x">>, T2515>>} }

\* trips.txt: T1 is a TGV; T2 is a TGV or a regional train
QueryTripTables ==
    { TripRowsOf("T1", <<[service_id |-> "S1", route_id |-> "R1"]>>)
        \o TripRowsOf("T2", <<[service_id |-> "S1", route_id |-> r]>>) :
      r \in {"R1", "R2"} }

\* the calendar of the feed: S1 every day and S2 added on 2024-03-11; a weekly
\* row that covers neither day; an archive without calendar files
QueryCalendars ==
    { [names |-> CalendarFiles, calendar |-> SampleCalendar,
       calendar_dates |-> SampleExceptions],
      [names |-> CalendarFiles,
       calendar |-> << [service_id |-> "S1", start_date |-> D10, end_date |-> D11,
                        sunday |-> "0", monday |-> "0"] >>,
       calendar_dates |-> << [service_id |-> "S1", date |-> D10,
                              exception_type |-> "2"] >>],
      [names |-> {}, calendar |-> <<>>, calendar_dates |-> <<>>] }

\* the queries are made at 00:30 or at 07:00 of the target day (of the day
\* before it for fetch_tomorrow)
QueryInit ==
    /\ CacheInit
    /\ feed \in { [names |-> c.names,
                    calendar |-> c.calendar,
                    calendar_dates |-> c.calendar_dates,
                    routes |-> RoutesTable,
                    trips |-> t,
                    stop_times |-> st] :
                   c \in QueryCalendars, t \in QueryTripTables,
                   st \in SeqsUpTo(QueryStopRows, MaxStopRows) }
    /\ query \in {[stage |-> "called", target |-> d, now |-> Instant(d, h[1], h[2])] :
                     d \in Days, h \in {<<0, 30>>, <<7, 0>>}}

QueryNext ==
    \/ FetchToday
    \/ FetchTomorrow
    \/ GetNextTgv
    \/ NowReport

SpecQuery == QueryInit /\ [][QueryNext]_vars

----------------------------------------------------------------------------
(* _build_arrival on its own (SpecBuild) *)

HourTexts == { <<"0", b>> : b \in {"0", "1", "2", "3", "8"} }
                 \cup { <<"2", b>> : b \in {"3", "4", "5", "6", "7"} }
                 \cup { <<"2">>, <<"4", "7">>, <<"4", "8">> }
MinuteTexts == { <<"0", "0">>, <<"1", "5">>, <<"3", "0">>, <<"5", "9">>, <<"6", "0">> }

\* arrival_time texts: HH:MM with HH from 00 past 47 and MM from 00 past 59,
\* HH:MM:SS, and texts that are no time
TimeTexts ==
    { h \o <<":">> \o m : h \in HourTexts, m \in MinuteTexts }
    \cup { T0800 \o <<":", "0", "0">>, TBad, <<"0", "8", "3", "0">>,
           <<"-", "1", ":", "3", "0">>, <<"0", "8", ":">> }

BuildDates == {d.ymd : d \in DateTable}

BuildTrip == [trip_id |-> "T1", service_id |-> "S1", route_id |-> "R1",
              route_name |-> "TGV"]

BuildInit ==
    /\ CacheInit
    /\ feed = NoFeedTables
    /\ query \in [stage : {"called"}, time_str : TimeTexts, date_str : BuildDates,
                   origin_stop_name : {"", "Bettembourg, Gare"}]

\* a call of _build_arrival, as _extract_arrivals makes it (line 291)
BuildArrivalCall ==
    /\ query.stage = "called"
    /\ query' = [stage |-> "built", time_str |-> query.time_str,
                 date_str |-> query.date_str,
                 arrival |-> BuildArrival(query.time_str, query.date_str,
                                          BuildTrip, query.origin_stop_name)]
    /\ UNCHANGED <<feed, cacheVars>>

BuildNext == BuildArrivalCall

SpecBuild == BuildInit /\ [][BuildNext]_vars

----------------------------------------------------------------------------
(* The schedule extraction of src/src/services/trains.py (SpecVariant) *)

\* _GTFS_STOP_ID of the variant
GTFS_STOP_ID == "200405035"

\* _build_gtfs_arrival(time_str, date_str, trip): the steps of _build_arrival
\* (split, int, hour >= 24, localize with pytz's default is_dst=False, one day
\* added afterwards); the trips of the model carry no trip_headsign, so the
\* origin is the dash
BuildGtfsArrival(time_str, date_str, trip) ==
    LET a == BuildArrival(time_str, date_str, trip, "")
    IN  IF a.none THEN None ELSE [a EXCEPT !.origin = "-"]

\* the loop of _extract_arrivals: one Arrival for every row at _GTFS_STOP_ID of
\* an active trip that has an arrival_time which parses
RECURSIVE VariantRows(_, _, _, _)
VariantRows(rows, active_trips, date_str, arrivals) ==
    IF rows = <<>> THEN arrivals
    ELSE LET row == Head(rows)
             a   == IF row.trip_id \in DOMAIN active_trips
                    THEN BuildGtfsArrival(row.arrival_time, date_str,
                                          active_trips[row.trip_id])
                    ELSE None
             keep == /\ row.stop_id = GTFS_STOP_ID
                     /\ row.trip_id \in DOMAIN active_trips
                     /\ row.arrival_time # <<>>
                     /\ ~a.none
         IN  VariantRows(Tail(rows), active_trips, date_str,
                         IF keep THEN Append(arrivals, a) ELSE arrivals)

\* _extract_arrivals(zf, active_trips, date_str) of the variant
VariantExtractArrivals(f, active_trips, date_str) ==
    Sorted(VariantRows(f.stop_times, active_trips, date_str, <<>>), <<>>)

\* stop_times.txt rows around the variant's stop
VariantStopTimeRows ==
    [trip_id : TripIds, stop_id : {GTFS_STOP_ID}, stop_sequence : {<<"2">>, <<"1", "0">>},
     arrival_time : {T0800, T2515}]
    \cup
    [trip_id : TripIds, stop_id : {"X"}, stop_sequence : {<<"2">>, <<"1", "0">>},
     arrival_time : {T0730}]

\* what _active_trips hands over: trip_id -> row with _route_name
VariantActiveTrips ==
    { NoTrips,
      ("T1" :> [trip_id |-> "T1", route_name |-> "TGV"]),
      ("T2" :> [trip_id |-> "T2", route_name |-> "RE"]),
      ("T1" :> [trip_id |-> "T1", route_name |-> "TGV"])
         @@ ("T2" :> [trip_id |-> "T2", route_name |-> "RE"]) }

VariantInit ==
    /\ CacheInit
    /\ feed \in [names : {CalendarFiles},
                 calendar : {<<>>}, calendar_dates : {<<>>},
                 routes : {RoutesTable}, trips : {<<>>},
                 stop_times : SeqsUpTo(VariantStopTimeRows, MaxStopRows)]
    /\ query \in [stage : {"called"}, target : Days, active_trips : VariantActiveTrips]

\* a call of the variant's _extract_arrivals, as _gtfs_for_date makes it
VariantExtractCall ==
    /\ query.stage = "called"
    /\ \E r \in {VariantExtractArrivals(feed, query.active_trips, query.target.ymd)} :
          query' = [stage |-> "done", target |-> query.target,
                    active_trips |-> query.active_trips, extracted |-> r]
    /\ UNCHANGED <<feed, cacheVars>>

VariantNext == VariantExtractCall

SpecVariant == VariantInit /\ [][VariantNext]_vars

----------------------------------------------------------------------------
(* src/http_client.py: fetch_json and fetch_bytes, attempt by attempt (SpecHttp).
   query is the call: `attempt` the loop variable, `replies` what each attempt
   so far ended with, `waits` the seconds handed to asyncio.sleep, `last_exc`
   the local of that name, `exc` what the call raised. *)

MAX_RETRIES  == 3
BACKOFF_BASE == 2

\* an attempt returns the body, or session.get / raise_for_status / the read
\* of the body raises
ClientErrors == {"ClientConnectionError", "ClientResponseError"}
Replies      == {"ok", "TimeoutError", "OtherException"} \cup ClientErrors

HttpFunctions == {"fetch_json", "fetch_bytes"}

\* Faulty variant: `except Exception`
IsTransientAlways(reply) == reply # "ok"

\* lines 58 and 80: except (aiohttp.ClientError, asyncio.TimeoutError)
IsTransient(reply) == reply \in ClientErrors \cup {"TimeoutError"}

\* lines 61 and 83: wait = _BACKOFF_BASE ** attempt
Backoff(attempt) == BACKOFF_BASE ^ attempt

HttpInit ==
    /\ CacheInit
    /\ feed = NoFeedTables
    /\ query \in [stage : {"request"}, fn : HttpFunctions, attempt : {1},
                  replies : {<<>>}, waits : {<<>>}, last_exc : {Null},
                  exc : {Null}]

\* one pass of the loop body up to its next suspension point: the request of
\* this attempt ends with `reply`
HttpReply(reply) ==
    /\ query.stage = "request"
    /\ LET q == [query EXCEPT !.replies = Append(@, reply)]
       IN  query' =
             IF reply = "ok" THEN [q EXCEPT !.stage = "returned"]
             ELSE IF ~IsTransient(reply)
                  THEN [q EXCEPT !.stage = "raised", !.exc = reply]
             ELSE IF query.attempt < MAX_RETRIES
                  THEN [q EXCEPT !.stage = "sleep", !.last_exc = reply,
                                 !.waits = Append(@, Backoff(query.attempt))]
             ELSE [q EXCEPT !.stage = "raised", !.last_exc = reply, !.exc = reply]
    /\ UNCHANGED <<feed, cacheVars>>

\* asyncio.sleep(wait) returned: the next attempt begins
HttpSlept ==
    /\ query.stage = "sleep"
    /\ query' = [query EXCEPT !.stage = "request", !.attempt = @ + 1]
    /\ UNCHANGED <<feed, cacheVars>>

HttpNext ==
    \/ \E reply \in Replies : HttpReply(reply)
    \/ HttpSlept

\* every request ends (the session's total timeout is 30 s) and every sleep
\* returns
SpecHttp == HttpInit /\ [][HttpNext]_vars /\ WF_vars(HttpNext)

----------------------------------------------------------------------------
(* src/analyzer.py: _group_into_blocks (SpecBlocks). An arrival is the minute
   of its effective time, counted from 00:00 of `day`. *)

TIME_BLOCKS ==
    << [label |-> "Early Morning (05-08)", sh |-> 5,  eh |-> 8],
       [label |-> "Morning (08-12)",       sh |-> 8,  eh |-> 12],
       [label |-> "Afternoon (12-17)",     sh |-> 12, eh |-> 17],
       [label |-> "Evening (17-21)",       sh |-> 17, eh |-> 21],
       [label |-> "Night (21-00)",         sh |-> 21, eh |-> 24] >>

Min(a, b) == IF a <= b THEN a ELSE b

\* day.replace(hour=sh, minute=0, second=0), in minutes
BlockStart(sh) == sh * 60

\* day.replace(hour=min(eh, 23), minute=59, second=59): the last minute whose
\* second 0 is not after it
BlockEnd(eh) == Min(eh, 23) * 60 + 59

\* [a for a in arrivals if block_start <= a.effective_time <= block_end]
RECURSIVE ItemsOf(_, _, _)
ItemsOf(arrivals, block_start, block_end) ==
    IF arrivals = <<>> THEN <<>>
    ELSE IF block_start <= Head(arrivals) /\ Head(arrivals) <= block_end
         THEN <<Head(arrivals)>> \o ItemsOf(Tail(arrivals), block_start, block_end)
         ELSE ItemsOf(Tail(arrivals), block_start, block_end)

\* _group_into_blocks(arrivals, day)
GroupIntoBlocks(arrivals) ==
    [b \in 1..Len(TIME_BLOCKS) |->
        [label |-> TIME_BLOCKS[b].label,
         start_hour |-> TIME_BLOCKS[b].sh, end_hour |-> TIME_BLOCKS[b].eh,
         arrivals |-> ItemsOf(arrivals, BlockStart(TIME_BLOCKS[b].sh),
                              BlockEnd(TIME_BLOCKS[b].eh))]]

\* HH:MM of `day` in minutes
Clock(hh, mm) == hh * 60 + mm

\* effective times around the block boundaries, and one of the next day
BlockMinutes ==
    { Clock(4, 59), Clock(5, 0), Clock(7, 59), Clock(8, 0), Clock(8, 30),
      Clock(11, 59), Clock(12, 0), Clock(17, 30), Clock(21, 0), Clock(23, 59),
      Clock(24, 30) }

\* build_tomorrow_report hands over a list sorted by effective time
Ascending(list) == \A k \in 1..(Len(list) - 1) : list[k] <= list[k + 1]

BlocksInit ==
    /\ CacheInit
    /\ feed = NoFeedTables
    /\ query \in [stage : {"called"},
                  arrivals : {l \in SeqsUpTo(BlockMinutes, MaxBlockArrivals) :
                                 Ascending(l)}]

GroupIntoBlocksCall ==
    /\ query.stage = "called"
    /\ query' = [stage |-> "done", arrivals |-> query.arrivals,
                 blocks |-> GroupIntoBlocks(query.arrivals)]
    /\ UNCHANGED <<feed, cacheVars>>

BlocksNext == GroupIntoBlocksCall

SpecBlocks == BlocksInit /\ [][BlocksNext]_vars

----------------------------------------------------------------------------
(* src/text.py: split_message, iteration by iteration (SpecSplit); _split of
   src/src/handlers/scheduler.py is the same code. A text is a sequence of
   characters; query holds the locals `text` and `chunks`, the arguments as
   `input` and `limit`, and the number of loop iterations so far. *)

NL == "\n"

Chars == {"a", NL}

\* text.rfind("\n", 0, limit): the highest index below limit (from 0) that
\* holds a newline, -1 when there is none
RFind(text, limit) ==
    LET found == {i \in 0..(Min(limit, Len(text)) - 1) : text[i + 1] = NL}
    IN  IF found = {} THEN -1
        ELSE CHOOSE i \in found : \A j \in found : j <= i

\* text.lstrip("\n")
RECURSIVE LStrip(_)
LStrip(text) ==
    IF text # <<>> /\ Head(text) = NL THEN LStrip(Tail(text)) ELSE text

\* text[:cut] and text[cut:]
Upto(text, cut) == SubSeq(text, 1, cut)
From(text, cut) == SubSeq(text, cut + 1, Len(text))

SplitInit ==
    /\ CacheInit
    /\ feed = NoFeedTables
    /\ query \in [stage : {"called"}, input : SeqsUpTo(Chars, MaxTextLen),
                  limit : 1..MaxLimit]

\* lines 15-17: a text within the limit is returned as the only chunk
SplitCall ==
    /\ query.stage = "called"
    /\ query' = IF Len(query.input) <= query.limit
                THEN [stage |-> "done", input |-> query.input, limit |-> query.limit,
                      text |-> query.input, chunks |-> <<query.input>>,
                      iterations |-> 0]
                ELSE [stage |-> "loop", input |-> query.input, limit |-> query.limit,
                      text |-> query.input, chunks |-> <<>>, iterations |-> 0]
    /\ UNCHANGED <<feed, cacheVars>>

\* lines 18-27: one iteration of `while text`, and the test that follows it
SplitStep ==
    /\ query.stage = "loop"
    /\ IF Len(query.text) <= query.limit
       THEN query' = [query EXCEPT !.stage = "done",
                                   !.chunks = Append(@, query.text),
                                   !.iterations = @ + 1]
       ELSE LET found == RFind(query.text, query.limit)
                cut   == IF found = -1 THEN query.limit ELSE found
                rest  == LStrip(From(query.text, cut))
            IN  query' = [query EXCEPT !.stage = IF rest = <<>> THEN "done" ELSE "loop",
                                       !.chunks = Append(@, Upto(query.text, cut)),
                                       !.text = rest,
                                       !.iterations = @ + 1]
    /\ UNCHANGED <<feed, cacheVars>>

SplitNext ==
    \/ SplitCall
    \/ SplitStep

SpecSplit == SplitInit /\ [][SplitNext]_vars

----------------------------------------------------------------------------
(* Claims on the feed cache *)

InFlight == {c \in Callers : pc[c] \in {"meta", "archive"}}
Checked  == {c \in Callers : pc[c] \in {"meta", "archive", "returned", "raised"}}

\* C1: when the callers of a cold cache overlap and the first acquisition
\* succeeds, the calls made while nothing was cached start exactly one
\* acquisition between them, none of them raises or downloads again, and every
\* one that has returned got the feed of that one acquisition.
C1_ColdCallersShareOneAcquisition ==
    hist.first = "ok" =>
        /\ hist.coldAcqs = 1
        /\ \A c \in Callers : call[c].cold =>
              /\ pc[c] \in {"waiting", "returned"}
              /\ pc[c] = "returned" => call[c].result = 1
              /\ call[c].acq \in {0, 1}

\* every coroutine called while the cache was cold, and all of them hold feed 1
C1_Witness ==
    /\ hist.first = "ok"
    /\ hist.acquisitions = 1
    /\ \A c \in Callers : call[c].cold /\ pc[c] = "returned" /\ call[c].result = 1
    /\ \E c \in Callers : call[c].queued

\* C2: at most one feed acquisition (_download_zip) is in flight at any time.
C2_AtMostOneAcquisitionInFlight == Cardinality(InFlight) <= 1

\* one acquisition in flight while the other callers wait for the lock
C2_Witness ==
    /\ Cardinality(InFlight) = 1
    /\ Len(waiters) = MaxCallers - 1

C5_FailureLeavesCacheUnchanged ==
    [][ /\ (\E c \in Callers : call[c].outcome = "none" /\ call'[c].outcome = "fail")
           => /\ zip' = zip
              /\ zip_fetched_at' = zip_fetched_at
              /\ NeedsDownload(zip', clock' - zip_fetched_at')
        /\ (zip' # zip \/ zip_fetched_at' # zip_fetched_at)
           => \E c \in Callers : /\ call[c].outcome = "none"
                                 /\ call'[c].outcome = "ok"
                                 /\ zip' = call'[c].result
                                 /\ zip_fetched_at' = clock'
      ]_vars

\* a failed refresh left the stale feed and its old timestamp in the cache
C5_Witness ==
    \E c \in Callers : /\ call[c].outcome = "fail"
                       /\ call[c].seen # NoFeed
                       /\ zip = call[c].seen
                       /\ clock - zip_fetched_at > GTFS_TTL

\* C6 as claimed: the cached feed is returned without acquisition exactly when
\* a feed is cached and its age is strictly below the TTL.
C6_CachedIffAgeBelowTtl ==
    \A c \in Checked :
        (call[c].acq = 0) <=> (call[c].seen # NoFeed /\ call[c].age < GTFS_TTL)

\* C6 amended: the cached feed is returned without acquisition exactly when a
\* feed is cached and its age is at most the TTL; otherwise the call acquires,
\* and a successful acquisition's feed is what it returns.
C6_CachedIffAgeAtMostTtl ==
    \A c \in Checked :
        /\ (call[c].acq = 0) <=> (call[c].seen # NoFeed /\ call[c].age <= GTFS_TTL)
        /\ call[c].acq = 0 => pc[c] = "returned" /\ call[c].result = call[c].seen
        /\ call[c].outcome = "ok" => call[c].result = call[c].acq

\* a call found the cached feed exactly TTL seconds old and returned it
C6_Witness ==
    \E c \in Checked : /\ call[c].seen # NoFeed
                       /\ call[c].age = GTFS_TTL
                       /\ call[c].acq = 0
                       /\ call[c].result = call[c].seen

\* C23: when no feed has ever been cached and the acquisition fails, _get_zip
\* propagates the failure to its caller and leaves the cache empty; it never
\* returns an absent or partial feed.
C23_ColdFailurePropagates ==
    [][ /\ \A c \in Callers :
              ( /\ call[c].outcome = "none"
                /\ call'[c].outcome = "fail"
                /\ call[c].seen = NoFeed )
              => /\ pc'[c] = "raised"
                 /\ call'[c].result = Raised
                 /\ zip' = NoFeed
                 /\ zip_fetched_at' = zip_fetched_at
        /\ \A c \in Callers :
              pc'[c] = "returned" => /\ call'[c].result \in 1..hist'.acquisitions
                                     /\ call'[c].result # NoFeed
      ]_vars

\* the very first acquisition failed: its caller got the exception and nothing
\* is cached
C23_Witness ==
    \E c \in Callers : /\ call[c].outcome = "fail"
                       /\ call[c].seen = NoFeed
                       /\ call[c].cold
                       /\ pc[c] = "raised"
                       /\ zip = NoFeed

\* the entries of the metadata reply that name a zip archive: format "zip" in
\* any case, and a url that is not empty
ZipEntries(dataset) ==
    IF dataset.kind # "dict" THEN {}
    ELSE {i \in 1..Len(dataset.resources) :
             /\ dataset.resources[i].format \in {"zip", "ZIP"}
             /\ dataset.resources[i].url \notin {"", Null}}

FirstOf(S) == CHOOSE i \in S : \A j \in S : i <= j

\* C24: if the metadata response is not of the expected shape, or lists no
\* resource whose format is "zip" (compared case-insensitively) with a
\* non-empty URL, the refresh fails as a hard error without requesting any
\* archive and without changing the cache; otherwise the archive downloaded is
\* the first such entry in listing order.
C24_FirstZipEntryOrHardError ==
    query.stage \in {"archive", "returned", "raised"} =>
        LET entries == ZipEntries(query.dataset)
        IN  IF entries = {}
            THEN /\ query.stage = "raised"
                 /\ query.requested = <<>>
                 /\ <<zip, zip_fetched_at>> = query.cache0
            ELSE LET first == query.dataset.resources[FirstOf(entries)].url
                 IN  /\ query.zip_url = first
                     /\ query.stage = "archive" => query.requested = <<>>
                     /\ query.stage # "archive" => query.requested = <<first>>

\* the reply lists a zip entry after an entry that is none, and a second zip
\* entry with another url; the first zip entry's archive was downloaded
C24_Witness ==
    /\ query.stage = "returned"
    /\ Len(query.dataset.resources) = MaxResources
    /\ \E i \in ZipEntries(query.dataset) :
          /\ i > 1
          /\ query.dataset.resources[i].url # query.dataset.resources[1].url
          /\ query.dataset.resources[1].format = "ZIP"
          /\ 1 \in ZipEntries(query.dataset)
    /\ query.requested = <<query.dataset.resources[1].url>>

\* the reply has entries but no zip entry with a url: the refresh raised,
\* nothing was requested and the stale feed is still cached
C24_HardErrorWitness ==
    /\ query.stage = "raised"
    /\ query.dataset.kind = "dict"
    /\ query.dataset.resources # <<>>
    /\ ZipEntries(query.dataset) = {}
    /\ query.requested = <<>>
    /\ zip = OldFeed

----------------------------------------------------------------------------
(* Claims on _extract_arrivals and the full-day query (SpecArrivals) *)

StopRow(i)   == feed.stop_times[i]
RowsOf(tid)  == {i \in 1..Len(feed.stop_times) : StopRow(i).trip_id = tid}
AtTarget(i)  == StopRow(i).stop_id = STOP_ID
SeqOf(i)     == ParseInt(StopRow(i).stop_sequence).val
IsMaxRow(i)  == \A j \in RowsOf(StopRow(i).trip_id) : SeqOf(j) <= SeqOf(i)

EventsFor(list, tid) == {k \in 1..Len(list) : list[k].tid = tid}

\* C7 as claimed: an active trip that has a row at the target stop whose
\* sequence position is below the trip's maximum yields no ArrivalEvent.
C7_RowBelowMaxMeansNoEvent ==
    query.stage = "done" =>
        \A tid \in DOMAIN query.trips :
            (\E i \in RowsOf(tid) : AtTarget(i) /\ ~IsMaxRow(i))
            => EventsFor(query.extracted, tid) = {}

\* C7 amended: an active trip that has rows at the target stop, none of them at
\* the trip's maximum sequence position, yields no ArrivalEvent, whatever the
\* order of the rows.
C7_PassThroughMeansNoEvent ==
    query.stage = "done" =>
        \A tid \in DOMAIN query.trips :
            ( /\ \E i \in RowsOf(tid) : AtTarget(i)
              /\ \A i \in RowsOf(tid) : AtTarget(i) => ~IsMaxRow(i) )
            => EventsFor(query.extracted, tid) = {}

\* an active trip passes the target stop, listed after its last stop, and the
\* extraction ran and gave no event for it
C7_Witness ==
    /\ query.stage = "done"
    /\ ~query.raised
    /\ \E tid \in DOMAIN query.trips :
          /\ \E i, j \in RowsOf(tid) : i < j /\ ~AtTarget(i) /\ AtTarget(j) /\ ~IsMaxRow(j)
          /\ \A i \in RowsOf(tid) : AtTarget(i) => ~IsMaxRow(i)
          /\ EventsFor(query.extracted, tid) = {}

\* the route of a trips.txt row is of an allow-listed category
AllowListed(t) == StripUpper(RouteName(feed.routes, t.route_id, "")) \in TRAIN_TYPES

\* HH:MM with HH in 0..47 and MM in 0..59
WellFormed(text) ==
    /\ Len(Split(text)) = 2
    /\ ParseInt(Split(text)[1]).ok /\ ParseInt(Split(text)[1]).val \in 0..47
    /\ ParseInt(Split(text)[2]).ok /\ ParseInt(Split(text)[2]).val \in 0..59

\* the local time HH:MM of service day `day` stands for
TimeOf(text, day) ==
    LET h == ParseInt(Split(text)[1]).val
        m == ParseInt(Split(text)[2]).val
    IN  ((day + (h \div 24)) * 24 + (h % 24)) * 60 + m

\* the only highest-sequence row of trip tid is row i, at the target stop, with a
\* well-formed arrival time
TerminatesAt(tid, i) ==
    /\ i \in RowsOf(tid)
    /\ AtTarget(i)
    /\ \A j \in RowsOf(tid) \ {i} : SeqOf(j) < SeqOf(i)
    /\ WellFormed(StopRow(i).arrival_time)

\* C8: for every trip active on the queried date whose highest-sequence row is
\* at the target stop with a well-formed time, the full-day query returns
\* exactly one ArrivalEvent for the trip, carrying that time, whatever the order
\* of the trip's rows and whatever other rows it has.
C8_TerminatingTripYieldsOneEvent ==
    query.stage = "done" =>
        \A n \in 1..Len(feed.trips) :
            LET t == feed.trips[n]
            IN  \A i \in RowsOf(t.trip_id) :
                    ( /\ t.service_id \in query.services
                      /\ AllowListed(t)
                      /\ TerminatesAt(t.trip_id, i) )
                    => /\ Cardinality(EventsFor(query.result, t.trip_id)) = 1
                       /\ \A k \in EventsFor(query.result, t.trip_id) :
                            EffectiveTime(query.result[k])
                              = TimeOf(StopRow(i).arrival_time, query.target.day)

\* the route_short_name of the route of a trips.txt row; "" for an unknown route
CategoryOf(t) == RouteName(feed.routes, t.route_id, "")

\* C14 as claimed: a trip is in the result of activeTrips if and only if its
\* service id is in the active-service set and its route's category code,
\* compared case-insensitively, is in the allow-list; a trip whose route id is
\* unknown or whose category is not allow-listed is dropped without error.
C14_CaseInsensitiveCategoryDecides ==
    query.stage = "done" =>
        /\ \A n \in 1..Len(feed.trips) :
              LET t == feed.trips[n]
              IN  t.trip_id \in DOMAIN query.trips
                    <=> /\ t.service_id \in query.services
                        /\ Upper(CategoryOf(t)) \in TRAIN_TYPES
        /\ (query.got /\ DOMAIN query.trips = {}) => ~query.raised /\ query.result = <<>>

\* C14 amended: a trip is in the result of activeTrips if and only if its
\* service id is in the active-service set and its route's category code, with
\* surrounding whitespace removed and compared case-insensitively, is in the
\* allow-list; a trip whose route id is unknown or whose category is not
\* allow-listed is dropped without error.
C14_TrimmedCategoryDecides ==
    query.stage = "done" =>
        /\ \A n \in 1..Len(feed.trips) :
              LET t == feed.trips[n]
              IN  t.trip_id \in DOMAIN query.trips
                    <=> /\ t.service_id \in query.services
                        /\ Upper(Strip(CategoryOf(t))) \in TRAIN_TYPES
        /\ (query.got /\ DOMAIN query.trips = {}) => ~query.raised /\ query.result = <<>>

\* one trip of an active service on a route named " re " is kept, the other, on
\* a route id that routes.txt does not have, is dropped
C14_Witness ==
    /\ query.stage = "done"
    /\ \E n, k \in 1..Len(feed.trips) :
          /\ feed.trips[n].service_id \in query.services
          /\ CategoryOf(feed.trips[n]) = " re "
          /\ feed.trips[n].trip_id \in DOMAIN query.trips
          /\ feed.trips[k].service_id \in query.services
          /\ CategoryOf(feed.trips[k]) = ""
          /\ feed.trips[k].trip_id \notin DOMAIN query.trips

\* the arrivals that _extract_arrivals derives for the service days of the
\* model and that fall on calendar day `day`
ArrivalsOnDay(day) ==
    UNION { LET list == ForDate(feed, d).arrivals
            IN  {list[i] : i \in {k \in 1..Len(list) : list[k].day = day}} :
            d \in Days }

\* C20: fetch_tomorrow returns exactly the terminating arrivals whose timestamp
\* falls on the queried calendar date: every returned event's local date is
\* the queried date, and no arrival whose timestamp is on that date is omitted.
C20_FullDayIsTheCalendarDate ==
    (query.stage = "done" /\ ~query.raised) =>
        /\ \A k \in 1..Len(query.result) : query.result[k].day = query.target.day
        /\ \A a \in ArrivalsOnDay(query.target.day) :
              \E k \in 1..Len(query.result) : query.result[k] = a

ExtractionDone == query.stage = "done" /\ query.got /\ ~query.raised

\* C25: the list returned by _extract_arrivals is sorted ascending by effective
\* timestamp: of two adjacent events the earlier one's timestamp is at most the
\* later one's.
C25_ExtractedAscending ==
    ExtractionDone =>
        \A k \in 1..(Len(query.extracted) - 1) :
            EffectiveTime(query.extracted[k]) <= EffectiveTime(query.extracted[k + 1])

\* the first row of stop_times.txt that puts the trip at the target stop
FirstGcRow(tid) ==
    CHOOSE i \in RowsOf(tid) : AtTarget(i) /\ \A j \in RowsOf(tid) : AtTarget(j) => i <= j

\* stop_times.txt lists the later arrival first, and the extraction returned
\* the earlier one first
C25_Witness ==
    /\ ExtractionDone
    /\ Len(query.extracted) = 2
    /\ EffectiveTime(query.extracted[1]) < EffectiveTime(query.extracted[2])
    /\ FirstGcRow(query.extracted[2].tid) < FirstGcRow(query.extracted[1].tid)

\* the vehicle category names in alphabetical order
CategoryOrder == <<"CRE", "CRN", "EC", "IC", "ICE", "IR", "RB", "RE", "TER", "TGV">>

CategoryRank(name) == CHOOSE i \in 1..Len(CategoryOrder) : CategoryOrder[i] = name

\* C26 as claimed: events with equal timestamps appear ordered by vehicle
\* category name, so the order of the output does not depend on the order of
\* the rows.
C26_TiesOrderedByCategory ==
    ExtractionDone =>
        \A k \in 1..(Len(query.extracted) - 1) :
            EffectiveTime(query.extracted[k]) = EffectiveTime(query.extracted[k + 1])
            => CategoryRank(query.extracted[k].identifier)
                  <= CategoryRank(query.extracted[k + 1].identifier)

\* C26 amended: events with equal timestamps appear in the order in which
\* their trips first occur at the target stop in stop_times.txt.
C26_TiesInRowOrder ==
    ExtractionDone =>
        \A k \in 1..(Len(query.extracted) - 1) :
            EffectiveTime(query.extracted[k]) = EffectiveTime(query.extracted[k + 1])
            => FirstGcRow(query.extracted[k].tid) < FirstGcRow(query.extracted[k + 1].tid)

\* a TGV and an RE arrive at the same minute, the TGV's row comes first, and
\* the TGV is first in the list
C26_Witness ==
    /\ ExtractionDone
    /\ Len(query.extracted) = 2
    /\ EffectiveTime(query.extracted[1]) = EffectiveTime(query.extracted[2])
    /\ query.extracted[1].identifier = "TGV"
    /\ query.extracted[2].identifier = "RE"
    /\ FirstGcRow(query.extracted[1].tid) < FirstGcRow(query.extracted[2].tid)

AtVariantStop(i) == StopRow(i).stop_id = GTFS_STOP_ID

\* C27: the _extract_arrivals of src/src/services/trains.py applies the
\* terminus check too: it emits no arrival for an active trip whose rows at the
\* target stop are none of them the trip's row of highest sequence position.
C27_VariantDropsPassThrough ==
    query.stage = "done" =>
        \A tid \in DOMAIN query.active_trips :
            ( /\ \E i \in RowsOf(tid) : AtVariantStop(i)
              /\ \A i \in RowsOf(tid) : AtVariantStop(i) => ~IsMaxRow(i) )
            => EventsFor(query.extracted, tid) = {}

----------------------------------------------------------------------------
(* Claims on _active_services (SpecCalendar) *)

\* the calendar_dates.txt rows of service sid dated exactly the target date
ExceptionsOn(sid) ==
    {i \in 1..Len(feed.calendar_dates) :
        /\ feed.calendar_dates[i].service_id = sid
        /\ feed.calendar_dates[i].date = query.target.ymd}

HasException(sid, type) ==
    \E i \in ExceptionsOn(sid) : feed.calendar_dates[i].exception_type = type

\* the last of them in file order is of this type
LastException(sid, type) ==
    \E i \in ExceptionsOn(sid) :
        /\ feed.calendar_dates[i].exception_type = type
        /\ \A j \in ExceptionsOn(sid) : j <= i

\* some weekly row of sid covers the target date and has its weekday's flag set
WeeklyActive(sid) ==
    \E i \in 1..Len(feed.calendar) :
        LET row == feed.calendar[i]
        IN  /\ row.service_id = sid
            /\ StrLeq(row.start_date, query.target.ymd)
            /\ StrLeq(query.target.ymd, row.end_date)
            /\ row[query.target.weekday] = "1"

\* C9 as claimed: a service with a "remove" exception dated d is absent from
\* activeServices(feed, d), whatever other exception rows the feed contains.
C9_RemovedServiceAbsent ==
    query.stage = "services" =>
        \A sid \in ServiceIds : HasException(sid, "2") => sid \notin query.services

\* C9 amended: a service whose last exception row dated d is a "remove" is
\* absent from activeServices(feed, d), even if its weekly pattern includes d.
C9_LastRemovedServiceAbsent ==
    query.stage = "services" =>
        \A sid \in ServiceIds : LastException(sid, "2") => sid \notin query.services

\* the weekly pattern includes d, an "add" is followed by a "remove": absent
C9_Witness ==
    /\ query.stage = "services"
    /\ \E sid \in ServiceIds :
          /\ WeeklyActive(sid)
          /\ HasException(sid, "1")
          /\ LastException(sid, "2")
          /\ sid \notin query.services

\* C10 as claimed: a service with an "add" exception dated d is present in
\* activeServices(feed, d), whatever other exception rows the feed contains.
C10_AddedServicePresent ==
    query.stage = "services" =>
        \A sid \in ServiceIds : HasException(sid, "1") => sid \in query.services

\* C10 amended: a service whose last exception row dated d is an "add" is
\* present in activeServices(feed, d), even if its weekly pattern excludes d or
\* it has no weekly row at all.
C10_LastAddedServicePresent ==
    query.stage = "services" =>
        \A sid \in ServiceIds : LastException(sid, "1") => sid \in query.services

\* no weekly row at all, a "remove" is followed by an "add": present
C10_Witness ==
    /\ query.stage = "services"
    /\ \E sid \in ServiceIds :
          /\ \A i \in 1..Len(feed.calendar) : feed.calendar[i].service_id # sid
          /\ HasException(sid, "2")
          /\ LastException(sid, "1")
          /\ sid \in query.services

\* the calendar_dates.txt rows of the feed in the order p, a permutation of
\* their positions
ExceptionsPermuted(p) ==
    [i \in 1..Len(feed.calendar_dates) |-> feed.calendar_dates[p[i]]]

ExceptionOrders == Permutations(1..Len(feed.calendar_dates))

\* activeServices(feed', d) is the same set for every feed' that differs from
\* the feed in the order of its exception rows only
SameForEveryExceptionOrder ==
    LET weekly == CalendarPass(feed.calendar, query.target.ymd,
                               query.target.weekday, {})
    IN  \A p \in ExceptionOrders :
            ExceptionPass(ExceptionsPermuted(p), query.target.ymd, weekly)
                = query.services

\* what the rows of service sid say about the target date, whatever their
\* position in the files: its exception rows if it has any, its weekly rows
\* otherwise
ExceptionsOverrideWeekly(sid) ==
    IF ExceptionsOn(sid) = {} THEN WeeklyActive(sid) ELSE LastException(sid, "1")

\* C11 as claimed: activeServices(feed, d) is the same for every permutation of
\* the calendar-exception rows of the feed, and the exception rows are applied
\* only after every weekly row.
C11_ExceptionOrderIrrelevant ==
    query.stage = "services" =>
        /\ SameForEveryExceptionOrder
        /\ \A sid \in ServiceIds :
              ExceptionsOn(sid) # {} =>
                 (sid \in query.services <=> LastException(sid, "1"))

\* C11 amended: when no service has both an "add" and a "remove" row dated d,
\* activeServices(feed, d) is the same for every permutation of the exception
\* rows; and in every feed the exception rows are applied after the weekly
\* rows: a service with exception rows dated d is active exactly when the last
\* of them is an "add", whatever its weekly rows say, and a service without
\* them exactly when a weekly row covers d.
C11_OrderIrrelevantWithoutConflict ==
    query.stage = "services" =>
        /\ (\A sid \in ServiceIds : ~(HasException(sid, "1") /\ HasException(sid, "2")))
           => SameForEveryExceptionOrder
        /\ \A sid \in ServiceIds :
              sid \in query.services <=> ExceptionsOverrideWeekly(sid)

\* two exception rows dated d, for different services, one of them removing a
\* service that a weekly row covers: either order gives the same set
C11_Witness ==
    /\ query.stage = "services"
    /\ \A sid \in ServiceIds : ~(HasException(sid, "1") /\ HasException(sid, "2"))
    /\ \E s1, s2 \in ServiceIds :
          /\ s1 # s2
          /\ WeeklyActive(s1) /\ HasException(s1, "2") /\ s1 \notin query.services
          /\ HasException(s2, "1") /\ s2 \in query.services
    /\ SameForEveryExceptionOrder

\* the date a calendar.txt field denotes, as a number
DateNumber(text) == DigitsValue(text, 0)

\* some weekly row of sid has start_date <= d <= end_date, as dates, and the
\* flag of d's weekday set to 1
WeeklyRowIncludes(sid) ==
    \E i \in 1..Len(feed.calendar) :
        LET row == feed.calendar[i]
        IN  /\ row.service_id = sid
            /\ DateNumber(row.start_date) <= DateNumber(query.target.ymd)
            /\ DateNumber(query.target.ymd) <= DateNumber(row.end_date)
            /\ row[query.target.weekday] = "1"

NoExceptionDated == \A i \in 1..Len(feed.calendar_dates) :
                        feed.calendar_dates[i].date # query.target.ymd

\* C12: for a date d with no calendar-exception rows dated d, a service id is
\* in activeServices(feed, d) if and only if some weekly row of the service has
\* start_date <= d <= end_date and the flag of d's weekday set to 1.
C12_WeeklyRowsDecideWithoutExceptions ==
    (query.stage = "services" /\ NoExceptionDated) =>
        \A sid \in ServiceIds : sid \in query.services <=> WeeklyRowIncludes(sid)

\* d is the last day of a weekly row's range, its weekday is flagged, the only
\* exception rows are of another date, and the service is active
C12_Witness ==
    /\ query.stage = "services"
    /\ NoExceptionDated
    /\ feed.calendar_dates # <<>>
    /\ \E i \in 1..Len(feed.calendar) :
          /\ feed.calendar[i].end_date = query.target.ymd
          /\ feed.calendar[i].start_date # query.target.ymd
          /\ feed.calendar[i][query.target.weekday] = "1"
          /\ feed.calendar[i].service_id \in query.services

----------------------------------------------------------------------------
(* Claims on the date query and its callers (SpecQuery) *)

DateQueryDone == query.stage = "done" /\ query.op = "fetch_today" /\ query.got

\* nothing in the feed makes a service run on the target date: the archive has
\* no calendar files, or no weekly row covers the date and no exception row
\* adds a service on it
NothingRuns ==
    \/ feed.names \cap CalendarFiles = {}
    \/ \A sid \in ServiceIds : ~WeeklyRowIncludes(sid) /\ ~HasException(sid, "1")

\* C13: when no service is active on the queried date (no weekly row matches
\* and no add exception, or the feed has no calendar tables), activeServices
\* returns the empty set and the date query returns an empty arrival list as a
\* normal result, without raising and without reading the trip or stop-time
\* tables.
C13_NoActiveServiceGivesEmptyList ==
    DateQueryDone =>
        /\ NothingRuns => query.services = {}
        /\ query.services = {} =>
              /\ ~query.raised
              /\ query.extracted = <<>>
              /\ query.result = <<>>
              /\ query.opened \cap {"trips.txt", "stop_times.txt"} = {}

\* the weekly row of the only service does not cover the date, and a stop-time
\* row of one of its trains has a stop_sequence that int() rejects: the query
\* returned [] and never opened the table
C13_Witness ==
    /\ DateQueryDone
    /\ feed.names = CalendarFiles
    /\ feed.calendar # <<>>
    /\ NothingRuns
    /\ \E i \in 1..Len(feed.stop_times) : ~ParseInt(feed.stop_times[i].stop_sequence).ok
    /\ query.services = {}
    /\ query.result = <<>>
    /\ ~query.raised
    /\ query.opened = CalendarFiles

\* a stop_times.txt row whose stop_sequence is an integer and whose
\* arrival_time is a time
WellFormedRow(row) == ParseInt(row.stop_sequence).ok /\ WellFormed(row.arrival_time)

MalformedRows == {i \in 1..Len(feed.stop_times) : ~WellFormedRow(feed.stop_times[i])}

\* the feed without its malformed stop-time rows
WithoutMalformedRows == [feed EXCEPT !.stop_times = SelectSeq(@, WellFormedRow)]

\* C17: a single malformed stop-time row (unparseable arrival time or
\* non-integer stop_sequence) causes only that row to be skipped: the query is
\* not aborted and returns the arrivals derived from all other rows.
C17_OneBadRowIsSkipped ==
    (DateQueryDone /\ Cardinality(MalformedRows) = 1) =>
        /\ ~query.raised
        /\ query.result = FetchTodayResult(WithoutMalformedRows, query.target,
                                           query.now, TRUE).list

\* C18: the report's trains_status is UNAVAILABLE after a train query that
\* failed (feed acquisition or decoding raised) and OK only after one that
\* succeeded, with or without arrivals.
C18_FailedQueryIsUnavailable ==
    (query.stage = "done" /\ query.op = "now_report") =>
        (query.trains_status = "unavailable" <=> query.trains_failed)

\* the TGV arrivals after `now` of the service days that get_next_tgv scanned
\* and that did not raise
TgvCandidates ==
    LET list0 == TgvsOfDay(feed, query.target, query.now, query.got0)
        list1 == TgvsOfDay(feed, NextDay(query.target), query.now, query.got1)
    IN  {list0[i] : i \in 1..Len(list0)} \cup {list1[i] : i \in 1..Len(list1)}

\* C19: get_next_tgv returns the arrival with the smallest timestamp among all
\* TGV arrivals, over all scanned service days, whose timestamp is strictly
\* after now; it returns absent if and only if there is none.
C19_NextTgvIsEarliestOfWindow ==
    (query.stage = "done" /\ query.op = "get_next_tgv") =>
        /\ query.result.none <=> TgvCandidates = {}
        /\ ~query.result.none =>
              /\ query.result \in TgvCandidates
              /\ \A a \in TgvCandidates :
                    EffectiveTime(query.result) <= EffectiveTime(a)

\* how many times the arrival stands in the list
Count(list, a) == Cardinality({k \in 1..Len(list) : list[k] = a})

ElementsOf(list) == {list[k] : k \in 1..Len(list)}

TodayQueryAnswered ==
    query.stage = "done" /\ query.op = "fetch_today" /\ ~query.raised

NextDayTgvs ==
    LET r == ForDateOrRaise(feed, NextDay(query.target), query.got1)
    IN  IF r.raised THEN {}
        ELSE {a \in ElementsOf(r.arrivals) :
                 a.identifier = "TGV" /\ EffectiveTime(a) > query.now}

FirstDayFailed == ForDateOrRaise(feed, query.target, query.got0).raised

\* C22: no failure of acquisition or decoding for one date leaves a facade
\* query: fetch_today and fetch_tomorrow return an empty list for a failing
\* date, and get_next_tgv passes over a failing date and still examines the
\* remaining one.
C22_FacadeNeverPropagates ==
    query.stage = "done" =>
        /\ query.op \in {"fetch_today", "fetch_tomorrow"} =>
              /\ ~query.propagated
              /\ query.raised => query.result = <<>>
        /\ (query.op = "get_next_tgv" /\ FirstDayFailed) =>
              /\ query.result.none <=> NextDayTgvs = {}
              /\ ~query.result.none =>
                    /\ query.result \in NextDayTgvs
                    /\ \A a \in NextDayTgvs :
                          EffectiveTime(query.result) <= EffectiveTime(a)

\* the feed could not be acquired for the first date, and get_next_tgv returned
\* a TGV of the next date
C22_Witness ==
    /\ query.stage = "done"
    /\ query.op = "get_next_tgv"
    /\ ~query.got0
    /\ ~query.result.none

\* a row of stop_times.txt failed to decode and fetch_today returned an empty
\* list
C22_DecodeFailureWitness ==
    /\ query.stage = "done"
    /\ query.op = "fetch_today"
    /\ query.got /\ query.raised
    /\ query.result = <<>>

----------------------------------------------------------------------------
(* Claims on fetch_json and fetch_bytes (SpecHttp) *)

HttpEnded == query.stage \in {"returned", "raised"}

LastReply == query.replies[Len(query.replies)]

\* the failed attempts that were followed by another attempt, or will be
Retried == IF HttpEnded THEN Len(query.replies) - 1 ELSE Len(query.replies)

HttpCallIsBounded ==
    /\ Len(query.replies) <= 3
    /\ query.attempt <= 3
    \* every attempt but the last of a call failed with a transient error
    /\ \A k \in 1..Retried :
          query.replies[k] \in {"ClientConnectionError", "ClientResponseError", "TimeoutError"}
    \* 2 s before the second attempt, 4 s before the third, none after it
    /\ query.waits = [k \in 1..Retried |-> IF k = 1 THEN 2 ELSE 4]
    /\ query.stage = "returned" <=> (query.replies # <<>> /\ LastReply = "ok")
    /\ query.stage = "raised" =>
          /\ query.exc = LastReply
          /\ LastReply = "OtherException" \/ Len(query.replies) = 3

\* C28: fetch_json and fetch_bytes always terminate after at most 3 attempts:
\* they return at the first success, wait 2 s and then 4 s between failed
\* attempts (no wait after the last), re-raise the last transient error after
\* the third failure, and let a non-transient error out at once, unretried.
C28_ThreeAttemptsThenRaise == []HttpCallIsBounded /\ <>HttpEnded

\* three attempts failed, by a timeout at the last: 2 s and 4 s were waited and
\* the timeout was raised
C28_Witness ==
    /\ query.stage = "raised"
    /\ Len(query.replies) = 3
    /\ query.replies[1] # query.replies[3]
    /\ query.exc = "TimeoutError"
    /\ query.waits = <<2, 4>>

----------------------------------------------------------------------------
(* Claims on _group_into_blocks (SpecBlocks) *)

\* the arrivals of the list, in its order, from sh:00 up to but not eh:00
RECURSIVE WithinHours(_, _, _)
WithinHours(arrivals, sh, eh) ==
    IF arrivals = <<>> THEN <<>>
    ELSE IF sh * 60 <= Head(arrivals) /\ Head(arrivals) < eh * 60
         THEN <<Head(arrivals)>> \o WithinHours(Tail(arrivals), sh, eh)
         ELSE WithinHours(Tail(arrivals), sh, eh)

\* the blocks that hold the arrival
BlocksHolding(a) ==
    {b \in 1..Len(query.blocks) : a \in ElementsOf(query.blocks[b].arrivals)}

\* C29: in _group_into_blocks the block (sh-eh) contains exactly the arrivals
\* with sh:00 <= local time < eh:00 of that day, so the five blocks are
\* pairwise disjoint: every arrival is in at most one block, and every arrival
\* between 05:00 and 24:00 is in exactly one.
C29_BlocksAreDisjointHalfOpen ==
    query.stage = "done" =>
        /\ \A b \in 1..Len(query.blocks) :
              query.blocks[b].arrivals =
                  WithinHours(query.arrivals, query.blocks[b].start_hour,
                              query.blocks[b].end_hour)
        /\ \A a \in ElementsOf(query.arrivals) :
              /\ Cardinality(BlocksHolding(a)) <= 1
              /\ (Clock(5, 0) <= a /\ a < Clock(24, 0))
                    => Cardinality(BlocksHolding(a)) = 1

----------------------------------------------------------------------------
(* Claims on split_message (SpecSplit) *)

OnlyNewlines(text) == \A k \in 1..Len(text) : text[k] = NL

StartsWith(text, prefix) ==
    Len(prefix) <= Len(text) /\ Upto(text, Len(prefix)) = prefix

\* the text is the chunks in their order, with nothing but newlines left out
\* between one chunk and the next (and after the last)
RECURSIVE JoinsTo(_, _)
JoinsTo(chunks, text) ==
    IF chunks = <<>> THEN OnlyNewlines(text)
    ELSE /\ StartsWith(text, Head(chunks))
         /\ \E k \in Len(Head(chunks))..Len(text) :
               /\ OnlyNewlines(SubSeq(text, Len(Head(chunks)) + 1, k))
               /\ JoinsTo(Tail(chunks), From(text, k))

\* C30: split_message terminates for every text and every limit >= 1, and
\* returns chunks that are each non-empty and at most limit characters long,
\* whose concatenation is the input with only newline characters at the cut
\* points removed. (Terminates: the loop makes at most one iteration per
\* character of the text.)
C30_ChunksNonEmptyWithinLimit ==
    /\ query.stage \in {"loop", "done"} => query.iterations <= Len(query.input)
    /\ query.stage = "done" =>
          /\ \A k \in 1..Len(query.chunks) :
                query.chunks[k] # <<>> /\ Len(query.chunks[k]) <= query.limit
          /\ JoinsTo(query.chunks, query.input)

----------------------------------------------------------------------------
(* Claims on _build_arrival (SpecBuild) *)

HourOf(text)   == ParseInt(Split(text)[1]).val
MinuteOf(text) == ParseInt(Split(text)[2]).val

\* the calendar day and the hour that HH:MM of service date D stands for
NormalDay(text, date_str) == DayOf(date_str) + (HourOf(text) \div 24)
NormalHour(text)          == HourOf(text) % 24

\* C15: for every well-formed arrival time HH:MM on service date D, the event's
\* timestamp is D at HH:MM local time if HH < 24, and (D + 1 calendar day) at
\* (HH - 24):MM local time if 24 <= HH <= 47. A timestamp is a local time of
\* the zone when its UTC offset is one the zone has at that date and time;
\* nothing is asked of the offset of a local time that the zone skips.
C15_LateHoursAreNextDayLocalTime ==
    (query.stage = "built" /\ WellFormed(query.time_str)) =>
        LET a   == query.arrival
            day == NormalDay(query.time_str, query.date_str)
            hh  == NormalHour(query.time_str)
            mm  == MinuteOf(query.time_str)
        IN  /\ ~a.none
            /\ a.day = day /\ a.hour = hh /\ a.minute = mm
            /\ LocalOffsets(day, hh, mm) # {} => a.utcoffset \in LocalOffsets(day, hh, mm)

\* C16: when the normalized local date and time falls in the repeated hour of
\* the fall-back transition, _build_arrival does not raise and resolves it to
\* the standard-time (post-transition) reading, never the daylight-time one.
C16_RepeatedHourIsStandardTime ==
    ( /\ query.stage = "built"
      /\ WellFormed(query.time_str)
      /\ LocalOffsets(NormalDay(query.time_str, query.date_str),
                      NormalHour(query.time_str), MinuteOf(query.time_str)) = {1, 2} )
    => ~query.arrival.none /\ query.arrival.utcoffset = 1

====
